---- MODULE Spec2Model ----
(***************************************************************************)
(* A model of the round resolution engine of the Town of Salem clone      *)
(* (src/engine.py, src/roles.py): role assignment, the night resolver,    *)
(* the investigation resolver, the day resolver and the win evaluator,    *)
(* driven in the order GameEngine.run drives them.                         *)
(*                                                                         *)
(* Strings that the engine formats and later parses (player names and the *)
(* knowledge notes) are sequences of tokens, so that the substring tests  *)
(* and splits of _extract_suspect_name are computed on the text itself.   *)
(* Every draw from the random generator is a nondeterministic choice.     *)
(***************************************************************************)
EXTENDS Integers, Sequences, FiniteSets, TLC

VARIABLES
    players,            \* GameState.players: sequence of Player records
    day,                \* GameState.day
    phase,              \* GameState.phase
    winners,            \* GameState.winners
    jailor_executions,  \* GameEngine.jailor_executions
    janitor_cleans,     \* GameEngine.janitor_cleans
    pc,                 \* position of the caller in GameEngine.run
    actions,            \* the action table of the night that just resolved
    deaths              \* the death list of the night that just resolved

vars == <<players, day, phase, winners, jailor_executions, janitor_cleans,
          pc, actions, deaths>>

---------------------------------------------------------------------------
(* Bounds of the exploration.                                              *)

\* Nights are resolved while day < MaxDay.
MaxDay == 3
\* Roster sizes for which WideSpec deals roles.
MinPlayers == 7
MaxPlayers == 13
\* WideSpec draws every shuffle from the pile shuffles with 1..MaxPiles piles.
MaxPiles == 3
\* WideSpec resolves nights only for rosters of at most ShallowSize players
\* dealt as Spec deals them, and WideSpec and NameSpec only while
\* day < ShallowDay.
ShallowSize == 7
ShallowDay == 2

\* Roster sizes and pile counts of the games Spec plays to the end.
GameSizes == {7, 8}
GamePiles == {3}

---------------------------------------------------------------------------
(* Role catalog (src/roles.py).  fake_claim is read only by the dialogue   *)
(* generator, whose text never reaches the game logic.                     *)

Role(n, a, f, g) ==
    [name |-> n, alignment |-> a, faction |-> f, investigator_group |-> g]

TOWN_ROLES ==
    << Role("Jailor", "Town", "Town", "Leader"),
       Role("Sheriff", "Town", "Town", "Investigator"),
       Role("Investigator", "Town", "Town", "Investigator"),
       Role("Doctor", "Town", "Town", "Protector"),
       Role("Escort", "Town", "Town", "Escort"),
       Role("Lookout", "Town", "Town", "Watcher"),
       Role("Townie", "Town", "Town", "Support") >>

MAFIA_ROLES ==
    << Role("Godfather", "Mafia", "Mafia", "Leader"),
       Role("Mafioso", "Mafia", "Mafia", "Killing"),
       Role("Consigliere", "Mafia", "Mafia", "Investigator"),
       Role("Janitor", "Mafia", "Mafia", "Support") >>

NEUTRAL_ROLES ==
    << Role("Jester", "Neutral", "Neutral", "Deception"),
       Role("Executioner", "Neutral", "Neutral", "Deception") >>

INVESTIGATOR_RESULTS ==
    [g \in {"Leader", "Investigator", "Protector", "Escort", "Watcher",
            "Support", "Killing", "Deception"} |->
        CASE g = "Leader" -> "Your target could be a Jailor or Godfather."
          [] g = "Investigator" ->
                 "Your target could be a Sheriff, Investigator, or Consigliere."
          [] g = "Protector" -> "Your target could be a Doctor."
          [] g = "Escort" -> "Your target could be an Escort."
          [] g = "Watcher" -> "Your target could be a Lookout."
          [] g = "Support" -> "Your target could be a Townie or Janitor."
          [] g = "Killing" -> "Your target could be a Mafioso."
          [] g = "Deception" -> "Your target could be a Jester or Executioner."]

\* The suspicious alignments without the Neutral one.
SheriffSuspectsMafiaOnly == {"Mafia"}

SHERIFF_SUSPICIOUS_ALIGNMENTS == {"Mafia", "Neutral"}

\* The default roster of GameEngine.run; a name is a sequence of tokens.
DefaultNames ==
    << <<"Alice">>, <<"Ben">>, <<"Casey">>, <<"Drew">>, <<"Emery">>,
       <<"Flynn">>, <<"Gray">>, <<"Harper">>, <<"Indigo">>, <<"Jude">>,
       <<"Kai">>, <<"Logan">> >>

---------------------------------------------------------------------------
(* Sequences.                                                              *)

Take(s, k) == SubSeq(s, 1, IF k < Len(s) THEN k ELSE Len(s))

MinOf(S) == CHOOSE x \in S : \A y \in S : x <= y

\* random.shuffle returns some permutation of the list.  The permutations
\* explored are the pile shuffles: the list is dealt round-robin into k
\* piles and the piles are stacked in order.
Pile(s, k) ==
    LET n == Len(s)
        Before(j, i) == \/ (j - 1) % k < (i - 1) % k
                        \/ (j - 1) % k = (i - 1) % k /\ j < i
        Pos(i) == 1 + Cardinality({j \in 1..n : Before(j, i)})
    IN  [r \in 1..n |-> s[CHOOSE i \in 1..n : Pos(i) = r]]

---------------------------------------------------------------------------
(* Players (src/engine.py, Player).  persona is drawn at add_players and   *)
(* read only by the dialogue generator; it is left out.                    *)

Player(nm, r) ==
    [name |-> nm, role |-> r, alive |-> TRUE, notes |-> <<>>, cleaned |-> FALSE]

Roster(ps) == 1..Len(ps)

\* GameEngine._alive_players, as the set of roster positions (list order is
\* position order).
AlivePlayers(ps) == {i \in Roster(ps) : ps[i].alive}

\* GameEngine._alive_players_by_faction
AlivePlayersByFaction(ps, faction) ==
    {i \in AlivePlayers(ps) : ps[i].role.faction = faction}

\* _assign_roles with the scaling threshold off by one (n < 12).
AssignRolesEarlyScale(n, km, kn, kt, kf) ==
    LET mafia_count == IF n < 12 THEN 3 ELSE 4
        neutral_count == IF n < 12 THEN 1 ELSE 2
        rest == n - mafia_count - neutral_count
        town_count == IF rest > 0 THEN rest ELSE 0
        mafia_roles == Pile(MAFIA_ROLES, km)
        neutral_roles == Pile(NEUTRAL_ROLES, kn)
        shuffled_town == Pile(TOWN_ROLES, kt)
        filler == TOWN_ROLES[Len(TOWN_ROLES)]
        town_roles ==
            IF Len(shuffled_town) < town_count
            THEN shuffled_town \o
                 [i \in 1..(town_count - Len(shuffled_town)) |-> filler]
            ELSE shuffled_town
    IN  Pile(Take(mafia_roles, mafia_count) \o Take(neutral_roles, neutral_count)
             \o Take(town_roles, town_count), kf)

\* GameEngine._assign_roles: the roles dealt to a roster of n players when
\* the four shuffles deal km, kn, kt and kf piles.
AssignRoles(n, km, kn, kt, kf) ==
    LET mafia_count == IF n <= 12 THEN 3 ELSE 4
        neutral_count == IF n <= 12 THEN 1 ELSE 2
        rest == n - mafia_count - neutral_count
        town_count == IF rest > 0 THEN rest ELSE 0
        mafia_roles == Pile(MAFIA_ROLES, km)
        neutral_roles == Pile(NEUTRAL_ROLES, kn)
        shuffled_town == Pile(TOWN_ROLES, kt)
        filler == TOWN_ROLES[Len(TOWN_ROLES)]
        town_roles ==
            IF Len(shuffled_town) < town_count
            THEN shuffled_town \o
                 [i \in 1..(town_count - Len(shuffled_town)) |-> filler]
            ELSE shuffled_town
    IN  Pile(Take(mafia_roles, mafia_count) \o Take(neutral_roles, neutral_count)
             \o Take(town_roles, town_count), kf)

\* GameEngine.add_players: one Player per name, then _assign_roles; zip
\* pairs players and roles up to the shorter list.
NewPlayers(names, km, kn, kt, kf) ==
    LET roles == AssignRoles(Len(names), km, kn, kt, kf)
    IN  [i \in 1..Len(names) |-> Player(names[i], roles[i])]

---------------------------------------------------------------------------
(* Knowledge notes and the suspicion tally.                                *)

\* f"Sheriff result on {target.name}: {suspicion}."
SheriffNote(name, suspicion) ==
    <<"Sheriff result on ">> \o name \o <<":", " ", suspicion, ".">>

\* f"Investigator on {target.name}: {result}"
InvestigatorNote(name, result) ==
    <<"Investigator on ">> \o name \o <<":", " ", result>>

\* f"Consigliere learns {target.name} is {target.role.name}."
ConsigliereNote(name, role_name) ==
    <<"Consigliere learns ">> \o name \o <<" is ", role_name, ".">>

\* `tok in text`
Contains(text, tok) == \E i \in 1..Len(text) : text[i] = tok

FirstIndex(text, tok) == MinOf({i \in 1..Len(text) : text[i] = tok})

\* text.split(tok, 1)[1], for a text that contains tok
AfterFirst(text, tok) == SubSeq(text, FirstIndex(text, tok) + 1, Len(text))

\* text.split(tok, 1)[0]
BeforeFirst(text, tok) ==
    IF Contains(text, tok) THEN SubSeq(text, 1, FirstIndex(text, tok) - 1)
    ELSE text

\* GameEngine._extract_suspect_name; << >> stands for None (and for the
\* empty string, which the caller's truth test treats alike).
ExtractSuspectName(note) ==
    IF ~Contains(note, "suspicious") THEN << >>
    ELSE IF Contains(note, "Sheriff result on ")
         THEN BeforeFirst(AfterFirst(note, "Sheriff result on "), ":")
         ELSE << >>

\* GameEngine._suspicion_counts, read at one name: suspect_counts.get(nm, 0).
SuspicionCount(ps, nm) ==
    IF nm = << >> THEN 0
    ELSE Cardinality(
           {e \in UNION {{<<i, k>> : k \in 1..Len(ps[i].notes)} :
                            i \in AlivePlayersByFaction(ps, "Town")} :
               ExtractSuspectName(ps[e[1]].notes[e[2]]) = nm})

\* max(eligible, key=...): the first player of the list with the largest count.
MostSuspected(ps, eligible) ==
    MinOf({i \in eligible :
             \A j \in eligible :
                 SuspicionCount(ps, ps[j].name) <= SuspicionCount(ps, ps[i].name)})

---------------------------------------------------------------------------
(* Targeting policies.  A policy is the set of targets the draw can give;  *)
(* 0 stands for None.                                                       *)

NoPlayer == 0

\* GameEngine._random_target
RandomTarget(ps, actor, allow_self) ==
    LET candidates == {p \in AlivePlayers(ps) :
                          allow_self \/ ps[p].name # ps[actor].name}
    IN  IF candidates = {} THEN {NoPlayer} ELSE candidates

\* GameEngine._select_sheriff_target: rng.random() < 0.7 picks among the
\* non-Town candidates when there are any, otherwise among all candidates.
SelectSheriffTarget(ps, sheriff) ==
    LET candidates == {p \in AlivePlayers(ps) : ps[p].name # ps[sheriff].name}
        non_town == {p \in candidates : ps[p].role.faction # "Town"}
    IN  IF candidates = {} THEN {NoPlayer} ELSE non_town \cup candidates

\* GameEngine._select_jail_target
SelectJailTarget(ps, jailor) ==
    LET alive == {p \in AlivePlayers(ps) : ps[p].name # ps[jailor].name}
        eligible == {p \in alive : SuspicionCount(ps, ps[p].name) > 0}
    IN  IF eligible # {} THEN {MostSuspected(ps, eligible)}
        ELSE RandomTarget(ps, jailor, FALSE)

\* The living holder of a role, 0 when there is none.  The catalogs hold
\* every acting role once and only the Townie pads a roster, so a role has
\* at most one holder.
Holder(ps, role_name) ==
    LET holders == {p \in AlivePlayers(ps) : ps[p].role.name = role_name}
    IN  IF holders = {} THEN NoPlayer ELSE MinOf(holders)

\* The targets a role's holder can draw: {0} when nobody holds the role.
Draws(ps, role_name) ==
    LET p == Holder(ps, role_name)
    IN  IF p = NoPlayer THEN {NoPlayer}
        ELSE CASE role_name = "Jailor" -> SelectJailTarget(ps, p)
               [] role_name = "Doctor" -> RandomTarget(ps, p, TRUE)
               [] role_name = "Sheriff" -> SelectSheriffTarget(ps, p)
               [] OTHER -> RandomTarget(ps, p, FALSE)

\* mafia_targets without the faction filter.
MafiaTargetsAnyone(ps) == AlivePlayers(ps)

\* mafia_targets of _run_night, and rng.choice(mafia_targets) when the kill
\* is made.
MafiaTargets(ps) == {p \in AlivePlayers(ps) : ps[p].role.faction # "Mafia"}

MafiaDraws(ps) ==
    IF AlivePlayersByFaction(ps, "Mafia") # {} /\ MafiaTargets(ps) # {}
    THEN MafiaTargets(ps) ELSE {NoPlayer}

---------------------------------------------------------------------------
(* The night's action table: key -> <<actor, target>>.  A key is           *)
(* <<kind, name>>: name is empty for the singleton keys and the actor's    *)
(* name for "sheriff-<name>", "investigator-<name>", "consigliere-<name>". *)

Key(kind) == <<kind, << >>>>

ActorKey(kind, ps, p) == <<kind, ps[p].name>>

HasAction(acts, k) == k \in DOMAIN acts

ActorOf(acts, k) == acts[k][1]

\* actions.get(k, (None, None))[1]
TargetOf(acts, k) == IF HasAction(acts, k) THEN acts[k][2] ELSE NoPlayer

\* Action collection and Mafia coordination of _run_night.  c gives the
\* target each draw returned.
NightActions(ps, cleans, c) ==
    LET jailor == Holder(ps, "Jailor")
        escort == Holder(ps, "Escort")
        doctor == Holder(ps, "Doctor")
        lookout == Holder(ps, "Lookout")
        sheriff == Holder(ps, "Sheriff")
        investigator == Holder(ps, "Investigator")
        consigliere == Holder(ps, "Consigliere")
        mafia == AlivePlayersByFaction(ps, "Mafia")
        kill == mafia # {} /\ MafiaTargets(ps) # {}
        clean == /\ kill
                 /\ \E p \in mafia : ps[p].role.name = "Janitor"
                 /\ cleans > 0
        Entry(on, k, actor, target) ==
            IF on THEN {<<k, <<actor, target>>>>} ELSE {}
        entries ==
            Entry(jailor # NoPlayer, Key("jail"), jailor, c.jail)
            \cup Entry(escort # NoPlayer /\ c.roleblock # NoPlayer,
                       Key("roleblock"), escort, c.roleblock)
            \cup Entry(doctor # NoPlayer, Key("heal"), doctor, c.heal)
            \cup Entry(lookout # NoPlayer, Key("watch"), lookout, c.watch)
            \cup Entry(sheriff # NoPlayer, ActorKey("sheriff", ps, sheriff),
                       sheriff, c.sheriff)
            \cup Entry(investigator # NoPlayer,
                       ActorKey("investigator", ps, investigator),
                       investigator, c.investigator)
            \cup Entry(consigliere # NoPlayer,
                       ActorKey("consigliere", ps, consigliere),
                       consigliere, c.consigliere)
            \cup Entry(kill, Key("mafia_kill"), MinOf(mafia), c.mafia_kill)
            \cup Entry(clean, Key("janitor_clean"), MinOf(mafia), c.mafia_kill)
    IN  [k \in {e[1] : e \in entries} |->
            (CHOOSE e \in entries : e[1] = k)[2]]

\* janitor_cleans after action collection: a recorded cleaning uses a charge.
CleansAfter(acts, cleans) ==
    IF HasAction(acts, Key("janitor_clean")) THEN cleans - 1 ELSE cleans

---------------------------------------------------------------------------
(* Resolution of the night (_run_night, from the roleblocked set on).      *)

Jailed(acts) == TargetOf(acts, Key("jail"))

\* The roleblocked set: the Escort's target and the jailed player, by name.
Roleblocked(ps, acts) ==
    {ps[p].name : p \in {TargetOf(acts, Key("roleblock")), Jailed(acts)}
                        \ {NoPlayer}}

\* The Mafia kill without the heal test.
KillDeathsThroughHeal(ps, acts) ==
    LET target == TargetOf(acts, Key("mafia_kill"))
    IN  IF /\ HasAction(acts, Key("mafia_kill"))
           /\ target # NoPlayer
           /\ ps[target].name \notin Roleblocked(ps, acts)
           /\ target # Jailed(acts)
        THEN <<target>> ELSE << >>

\* The Mafia kill without the roleblock and jail tests.
KillDeathsThroughJail(ps, acts) ==
    LET target == TargetOf(acts, Key("mafia_kill"))
        heal_target == TargetOf(acts, Key("heal"))
    IN  IF /\ HasAction(acts, Key("mafia_kill"))
           /\ target # NoPlayer
           /\ target # heal_target
        THEN <<target>> ELSE << >>

\* The Mafia kill's contribution to the death list.
KillDeaths(ps, acts) ==
    LET target == TargetOf(acts, Key("mafia_kill"))
        heal_target == TargetOf(acts, Key("heal"))
    IN  IF /\ HasAction(acts, Key("mafia_kill"))
           /\ target # NoPlayer
           /\ ps[target].name \notin Roleblocked(ps, acts)
           /\ target # heal_target
           /\ target # Jailed(acts)
        THEN <<target>> ELSE << >>

\* The execution without the test of the charge.
ExecutesUncounted(ps, acts, execs) ==
    /\ Jailed(acts) # NoPlayer
    /\ ps[Jailed(acts)].role.faction # "Town"

\* The execution without the test of the faction.
ExecutesAnyone(ps, acts, execs) ==
    /\ Jailed(acts) # NoPlayer
    /\ execs > 0

\* Whether the jailed player is executed.
Executes(ps, acts, execs) ==
    /\ Jailed(acts) # NoPlayer
    /\ execs > 0
    /\ ps[Jailed(acts)].role.faction # "Town"

\* The death list when the kill reaches a jailed target too.
NightDeathsKillJailed(ps, acts, execs) ==
    (IF /\ TargetOf(acts, Key("mafia_kill")) # NoPlayer
        /\ TargetOf(acts, Key("mafia_kill")) # TargetOf(acts, Key("heal"))
     THEN <<TargetOf(acts, Key("mafia_kill"))>> ELSE << >>)
    \o (IF Executes(ps, acts, execs) THEN <<Jailed(acts)>> ELSE << >>)

\* The death list of the night.
NightDeaths(ps, acts, execs) ==
    KillDeaths(ps, acts)
    \o (IF Executes(ps, acts, execs) THEN <<Jailed(acts)>> ELSE << >>)

InList(p, list) == \E k \in 1..Len(list) : list[k] = p

\* The cleaning without the test that its target died.
CleansAnyTarget(acts, dead) ==
    /\ HasAction(acts, Key("janitor_clean"))
    /\ dead # << >>

\* Whether the cleaning marks its target.
Cleans(acts, dead) ==
    /\ HasAction(acts, Key("janitor_clean"))
    /\ dead # << >>
    /\ InList(TargetOf(acts, Key("janitor_clean")), dead)

\* The liveness update written as an assignment of "not in the death list".
ApplyDeathsReviving(ps, acts, dead) ==
    [p \in Roster(ps) |->
        [ps[p] EXCEPT
            !.cleaned = IF Cleans(acts, dead)
                           /\ p = TargetOf(acts, Key("janitor_clean"))
                        THEN TRUE ELSE @,
            !.alive = ~InList(p, dead)]]

\* The cleaned flag and the liveness update.
ApplyDeaths(ps, acts, dead) ==
    [p \in Roster(ps) |->
        [ps[p] EXCEPT
            !.cleaned = IF Cleans(acts, dead)
                           /\ p = TargetOf(acts, Key("janitor_clean"))
                        THEN TRUE ELSE @,
            !.alive = IF InList(p, dead) THEN FALSE ELSE @]]

\* The note one entry of the table adds to its actor's log.
NoteOf(ps, k, target) ==
    CASE k[1] = "sheriff" ->
           SheriffNote(ps[target].name,
                       IF ps[target].role.alignment \in SHERIFF_SUSPICIOUS_ALIGNMENTS
                       THEN "suspicious" ELSE "innocent")
      [] k[1] = "investigator" ->
           InvestigatorNote(ps[target].name,
               IF ps[target].role.investigator_group \in DOMAIN INVESTIGATOR_RESULTS
               THEN INVESTIGATOR_RESULTS[ps[target].role.investigator_group]
               ELSE "Your target's role is unclear.")
      [] k[1] = "consigliere" ->
           ConsigliereNote(ps[target].name, ps[target].role.name)

\* _resolve_investigations storing the note as the whole log.
ResolveInvestigationsOverwriting(ps, acts) ==
    LET Noted(p) == {k \in DOMAIN acts :
                        /\ ActorOf(acts, k) = p
                        /\ TargetOf(acts, k) # NoPlayer
                        /\ k[1] \in {"sheriff", "investigator", "consigliere"}}
    IN  [p \in Roster(ps) |->
            IF Noted(p) = {} THEN ps[p]
            ELSE LET k == CHOOSE x \in Noted(p) : TRUE
                 IN  [ps[p] EXCEPT
                        !.notes = <<NoteOf(ps, k, TargetOf(acts, k))>>]]

\* GameEngine._resolve_investigations
ResolveInvestigations(ps, acts) ==
    LET Noted(p) == {k \in DOMAIN acts :
                        /\ ActorOf(acts, k) = p
                        /\ TargetOf(acts, k) # NoPlayer
                        /\ k[1] \in {"sheriff", "investigator", "consigliere"}}
    IN  [p \in Roster(ps) |->
            IF Noted(p) = {} THEN ps[p]
            ELSE LET k == CHOOSE x \in Noted(p) : TRUE
                 IN  [ps[p] EXCEPT
                        !.notes = Append(@, NoteOf(ps, k, TargetOf(acts, k)))]]

\* GameEngine._validate_night: TRUE when no error is raised.
ValidateNight(ps, acts) ==
    LET roster == {ps[p].name : p \in Roster(ps)}
    IN  \A k \in DOMAIN acts :
            LET actor == ActorOf(acts, k)
                target == TargetOf(acts, k)
            IN  /\ ~(/\ k = Key("mafia_kill")
                     /\ target # NoPlayer
                     /\ ps[target].role.faction = "Mafia")
                /\ target # NoPlayer => ps[target].name \in roster
                /\ ps[actor].name \in roster

\* The win evaluation with a strict majority test (> for >=).
CheckWinConditionsStrict(ps) ==
    LET town == AlivePlayersByFaction(ps, "Town")
        mafia == AlivePlayersByFaction(ps, "Mafia")
    IN  IF mafia = {} THEN <<"Town">>
        ELSE IF Cardinality(mafia) > Cardinality(town) THEN <<"Mafia">>
        ELSE << >>

\* GameEngine._check_win_conditions: the winner set it stores, << >> when it
\* returns False and stores nothing.
CheckWinConditions(ps) ==
    LET town == AlivePlayersByFaction(ps, "Town")
        mafia == AlivePlayersByFaction(ps, "Mafia")
    IN  IF mafia = {} THEN <<"Town">>
        ELSE IF Cardinality(mafia) >= Cardinality(town) THEN <<"Mafia">>
        ELSE << >>

\* GameEngine._trial_and_lynch: the player eliminated, 0 when there is no
\* trial.
Lynched(ps) ==
    LET alive == AlivePlayers(ps)
        eligible == {p \in alive : SuspicionCount(ps, ps[p].name) > 0}
    IN  IF Cardinality(alive) < 3 THEN NoPlayer
        ELSE IF eligible = {} THEN NoPlayer
        ELSE MostSuspected(ps, eligible)

TrialAndLynch(ps) ==
    [p \in Roster(ps) |->
        IF p = Lynched(ps) THEN [ps[p] EXCEPT !.alive = FALSE] ELSE ps[p]]

---------------------------------------------------------------------------
(* Init: the engine as GameEngine.__init__ leaves it.                      *)

NoActions == << >>

Init ==
    /\ players = << >>
    /\ day = 1
    /\ phase = "night"
    /\ winners = << >>
    /\ jailor_executions = 1
    /\ janitor_cleans = 2
    /\ pc = "new"
    /\ actions = NoActions
    /\ deaths = << >>

\* The names handed to add_players: the default names and one more, for
\* rosters larger than the default one.
Names == DefaultNames \o << <<"Morgan">>, <<"Noel">> >>

\* add_players(names) on a fresh engine, followed by run entering its loop.
AddPlayersOf(lists, piles) ==
    /\ pc = "new"
    /\ players = << >>
    /\ \E names \in lists, km \in piles, kn \in piles, kt \in piles, kf \in piles :
           players' = NewPlayers(names, km, kn, kt, kf)
    /\ pc' = "night"
    /\ UNCHANGED <<day, phase, winners, jailor_executions, janitor_cleans,
                   actions, deaths>>

AddPlayers == AddPlayersOf({Take(Names, n) : n \in GameSizes}, GamePiles)

\* The draws of one night.
NightDraws(ps) ==
    [jail : Draws(ps, "Jailor"), roleblock : Draws(ps, "Escort"),
     heal : Draws(ps, "Doctor"), watch : Draws(ps, "Lookout"),
     sheriff : Draws(ps, "Sheriff"), investigator : Draws(ps, "Investigator"),
     consigliere : Draws(ps, "Consigliere"), mafia_kill : MafiaDraws(ps)]

\* GameEngine._run_night for the draws c: what the night leaves behind.
NightResult(ps, cleans, execs, c) ==
    LET acts == NightActions(ps, cleans, c)
        dead == NightDeaths(ps, acts, execs)
        after == ResolveInvestigations(ApplyDeaths(ps, acts, dead), acts)
    IN  [players |-> after, actions |-> acts, deaths |-> dead,
         cleans |-> CleansAfter(acts, cleans),
         execs |-> IF Executes(ps, acts, execs) THEN execs - 1 ELSE execs,
         valid |-> ValidateNight(after, acts)]

\* GameEngine._run_night, whole.  A validation error leaves the night before
\* its day increment.
\* A night that counts the day only when somebody died.
NightStepCountingDeaths(c, next_day) ==
    \E r \in {NightResult(players, janitor_cleans, jailor_executions, c)} :
        /\ phase' = "night" /\ actions' = r.actions /\ deaths' = r.deaths
        /\ janitor_cleans' = r.cleans /\ jailor_executions' = r.execs
        /\ players' = r.players
        /\ day' = IF r.valid /\ r.deaths # << >> THEN next_day ELSE day
        /\ pc' = IF r.valid THEN "check" ELSE "error"
        /\ UNCHANGED winners

NightStep(c, next_day) ==
    \E r \in {NightResult(players, janitor_cleans, jailor_executions, c)} :
        /\ phase' = "night"
        /\ actions' = r.actions
        /\ deaths' = r.deaths
        /\ janitor_cleans' = r.cleans
        /\ jailor_executions' = r.execs
        /\ players' = r.players
        /\ day' = IF r.valid THEN next_day ELSE day
        /\ pc' = IF r.valid THEN "check" ELSE "error"
        /\ UNCHANGED winners

RunNight ==
    /\ pc = "night"
    /\ day < MaxDay
    /\ \E c \in NightDraws(players) : NightStep(c, day + 1)

\* run with the break of line 178 left out: the day follows the night
\* whatever the win evaluation stored.
CheckWinNoBreak ==
    /\ pc = "check"
    /\ \E won \in {CheckWinConditions(players)} :
           /\ winners' = IF won # << >> THEN won ELSE winners
           /\ pc' = "day"
    /\ actions' = NoActions
    /\ deaths' = << >>
    /\ UNCHANGED <<players, day, phase, jailor_executions, janitor_cleans>>

\* run, line 177: the win evaluation after the night.  The night's locals
\* are gone once _run_night has returned.
CheckWin ==
    /\ pc = "check"
    /\ \E won \in {CheckWinConditions(players)} :
           /\ winners' = IF won # << >> THEN won ELSE winners
           /\ pc' = IF won # << >> THEN "done" ELSE "day"
    /\ actions' = NoActions
    /\ deaths' = << >>
    /\ UNCHANGED <<players, day, phase, jailor_executions, janitor_cleans>>

\* A day after which run's loop goes on whatever the winner set holds.
RunDayLoopsOn ==
    /\ pc = "day"
    /\ phase' = "day"
    /\ \E after \in {TrialAndLynch(players)} :
         \E won \in {CheckWinConditions(after)} :
           /\ players' = after
           /\ winners' = IF won # << >> THEN won ELSE winners
           /\ pc' = "night"
    /\ UNCHANGED <<day, jailor_executions, janitor_cleans, actions, deaths>>

\* GameEngine._run_day, whole, and the loop test of run that follows it.
RunDay ==
    /\ pc = "day"
    /\ phase' = "day"
    /\ \E after \in {TrialAndLynch(players)} :
         \E won \in {CheckWinConditions(after)} :
           /\ players' = after
           /\ winners' = IF won # << >> THEN won ELSE winners
           /\ pc' = IF won # << >> \/ winners # << >> THEN "done" ELSE "night"
    /\ UNCHANGED <<day, jailor_executions, janitor_cleans, actions, deaths>>

Next == AddPlayers \/ RunNight \/ CheckWin \/ RunDay

Spec == Init /\ [][Next]_vars

---------------------------------------------------------------------------
(* LiveSpec: run on a roster in which nobody keeps a knowledge log, played *)
(* without a bound on the nights.  The day counter stops counting at       *)
(* MaxDay, so that a game that never ends is a cycle of states.  run's     *)
(* loop always takes its next step: weak fairness of the next-state        *)
(* relation.                                                               *)

QuietSizes == {7}

AddQuietPlayers == AddPlayersOf({Take(Names, n) : n \in QuietSizes}, GamePiles)

RunNightUnbounded ==
    /\ pc = "night"
    /\ \E c \in NightDraws(players) :
           NightStep(c, IF day < MaxDay THEN day + 1 ELSE day)

LiveNext == AddQuietPlayers \/ RunNightUnbounded \/ CheckWin \/ RunDay

\* run's loop takes its next step: every step of LiveNext moves pc, and one
\* is possible in every state but the one that ends run.
Proceed ==
    /\ pc \notin {"done", "error"}
    /\ pc' \in {"night", "check", "day", "done", "error"} \ {pc}

LiveSpec == Init /\ [][LiveNext]_vars /\ WF_pc(Proceed)

---------------------------------------------------------------------------
(* EvalSpec: _check_win_conditions applied to every combination of alive   *)
(* flags of the rosters of EvalSizes players.                              *)

EvalSizes == {12, 13}

EvalInit ==
    /\ \E n \in EvalSizes, k \in GamePiles :
         \E ps \in {NewPlayers(Take(Names, n), k, k, k, k)} :
           \E living \in SUBSET Roster(ps) :
             players = [p \in Roster(ps) |->
                          [ps[p] EXCEPT !.alive = p \in living]]
    /\ day = 2
    /\ phase = "night"
    /\ winners = << >>
    /\ jailor_executions = 1
    /\ janitor_cleans = 2
    /\ pc = "check"
    /\ actions = NoActions
    /\ deaths = << >>

EvalNext == CheckWin

EvalSpec == EvalInit /\ [][EvalNext]_vars

---------------------------------------------------------------------------
(* WideSpec: add_players for every roster size and every pile shuffle; the *)
(* nights and days before ShallowDay are played for some of the smallest   *)
(* rosters only.                                                           *)

AddWidePlayers ==
    AddPlayersOf({Take(Names, n) : n \in MinPlayers..MaxPlayers}, 1..MaxPiles)

RunFirstNight ==
    /\ pc = "night"
    /\ day < ShallowDay
    /\ \E c \in NightDraws(players) : NightStep(c, day + 1)

\* The rosters WideSpec plays: those of at most ShallowSize players dealt
\* as Spec deals them.
Played(ps) ==
    /\ Len(ps) <= ShallowSize
    /\ \E k \in GamePiles :
          [p \in Roster(ps) |-> ps[p].role] = AssignRoles(Len(ps), k, k, k, k)

RunShallowNight ==
    /\ pc = "night"
    /\ day < ShallowDay
    /\ Played(players)
    /\ RunFirstNight

WideNext == AddWidePlayers \/ RunShallowNight \/ CheckWin \/ RunDay

WideSpec == Init /\ [][WideNext]_vars

---------------------------------------------------------------------------
(* NameSpec: the first night and day of a game in which one player, in any *)
(* seat, goes by a name that holds the word "suspicious".                  *)

HostileName == <<"suspicious", " ", "Sam">>

HostileSizes == {8}

HostileLists ==
    UNION {{[Take(Names, n) EXCEPT ![k] = HostileName] : k \in 1..n} :
              n \in HostileSizes}

AddHostilePlayers == AddPlayersOf(HostileLists, GamePiles)

NameNext == AddHostilePlayers \/ RunFirstNight \/ CheckWin \/ RunDay

NameSpec == Init /\ [][NameNext]_vars

---------------------------------------------------------------------------
(* RoleSpec: the nights and days before ShallowDay of the rosters of Spec  *)
(* and of rosters dealt with two piles, which hold an Escort, an           *)
(* Investigator and a Consigliere.                                         *)

RolePiles == {2, 3}

AddRolePlayers == AddPlayersOf({Take(Names, n) : n \in GameSizes}, RolePiles)

RoleNext == AddRolePlayers \/ RunFirstNight \/ CheckWin \/ RunDay

RoleSpec == Init /\ [][RoleNext]_vars

---------------------------------------------------------------------------
(* DeepSpec: run on the eight-player roster, played one night further     *)
(* than Spec, far enough for a day to open on the fewest living players   *)
(* the win evaluation lets through.                                        *)

DeepDay == 4

DeepSizes == {8}

AddDeepPlayers == AddPlayersOf({Take(Names, n) : n \in DeepSizes}, GamePiles)

RunDeepNight ==
    /\ pc = "night"
    /\ day < DeepDay
    /\ \E c \in NightDraws(players) : NightStep(c, day + 1)

DeepNext == AddDeepPlayers \/ RunDeepNight \/ CheckWin \/ RunDay

DeepSpec == Init /\ [][DeepNext]_vars

---------------------------------------------------------------------------
(* Properties.                                                             *)

\* The night that just resolved is readable at pc = "check".
NightResolved == pc = "check"

KillTarget == TargetOf(actions, Key("mafia_kill"))

HealTarget == TargetOf(actions, Key("heal"))

\* A step of _run_night.
NightTaken == pc = "night" /\ pc' = "check"

\* The players whose alive flag a step clears.
Died == {p \in Roster(players) : players[p].alive /\ ~players'[p].alive}

ListSet(list) == {list[k] : k \in 1..Len(list)}

\* C1 as stated: whenever the Mafia kill target is also the Doctor's heal
\* target, that player is alive at the end of the night, whoever is jailed.
C1_HealedTargetSurvives ==
    (NightResolved /\ KillTarget # NoPlayer /\ KillTarget = HealTarget)
        => players[KillTarget].alive

\* C1 amended: whenever the Mafia kill target is also the Doctor's heal
\* target, that player is alive at the end of the night unless that player
\* is the jailed player, is not of the Town faction and is executed by the
\* Jailor that night; the heal stops the Mafia kill, not the execution.
C1_HealedTargetSurvivesKill ==
    (NightResolved /\ KillTarget # NoPlayer /\ KillTarget = HealTarget)
        => \/ players[KillTarget].alive
           \/ /\ Jailed(actions) = KillTarget
              /\ players[KillTarget].role.faction # "Town"
              /\ deaths = <<KillTarget>>
              /\ jailor_executions = 0

\* A night in which the healed player is the kill target, somebody else is
\* jailed, and the healed player lives.
C1_Witness ==
    /\ NightResolved
    /\ KillTarget # NoPlayer /\ KillTarget = HealTarget
    /\ Jailed(actions) # NoPlayer /\ Jailed(actions) # KillTarget
    /\ players[KillTarget].alive

\* C2: in every night at most two players die, at most one by the Mafia
\* kill and at most one by the Jailor execution; the death list names each
\* of them once, and when both occur they are two different players.
C2_AtMostTwoDeaths ==
    [][NightTaken =>
         /\ Died = ListSet(deaths')
         /\ Len(deaths') = Cardinality(Died)
         /\ Cardinality(Died) <= 2
         /\ Died \subseteq {TargetOf(actions', Key("mafia_kill")), Jailed(actions')}
         /\ Cardinality(Died \ {Jailed(actions')}) <= 1
         /\ Cardinality(Died) = 2 =>
                TargetOf(actions', Key("mafia_kill")) # Jailed(actions')]_vars

\* A night with a Mafia kill and an execution.
C2_Witness ==
    /\ NightResolved
    /\ Len(deaths) = 2
    /\ deaths[1] = KillTarget
    /\ deaths[2] = Jailed(actions)

\* C3: in every night where the Mafia kill target is the jailed player,
\* nobody else dies and that player dies exactly when the execution applies
\* (a charge remains and the player's faction is not Town); a jailed Town
\* player targeted by the Mafia is alive at the end of the night.
C3_JailedTargetNotKilled ==
    [][(NightTaken /\ TargetOf(actions', Key("mafia_kill")) # NoPlayer
          /\ TargetOf(actions', Key("mafia_kill")) = Jailed(actions')) =>
         LET t == Jailed(actions')
             executed == jailor_executions > 0 /\ players[t].role.faction # "Town"
         IN  /\ deaths' = IF executed THEN <<t>> ELSE << >>
             /\ players'[t].alive = ~executed
             /\ players[t].role.faction = "Town" => players'[t].alive]_vars

\* A night in which the Mafia targets a jailed Town player, who lives.
C3_Witness ==
    /\ NightResolved
    /\ KillTarget # NoPlayer /\ KillTarget = Jailed(actions)
    /\ players[KillTarget].role.faction = "Town"
    /\ players[KillTarget].alive
    /\ deaths = << >>

\* C4: during run the winner set is empty until a win evaluation returns
\* true; once it is non-empty run takes no further step, so the winner set,
\* the alive flags and the phases stay as they are.
C4_WinnersFrozen ==
    [][/\ winners = << >>
       /\ winners' # << >> =>
              /\ pc \in {"check", "day"}
              /\ winners' = CheckWinConditions(players')
              /\ pc' = "done"
       /\ pc' = "done" => winners' # << >>]_vars

\* run has ended with a winner found by the evaluation that ends a day.
C4_Witness == pc = "done" /\ winners # << >> /\ phase = "day"

C7_DeadStayDead ==
    [][/\ players = << >> => \A p \in Roster(players') : players'[p].alive
       /\ players # << >> =>
              /\ Roster(players') = Roster(players)
              /\ \A p \in Roster(players) :
                     ~players[p].alive => ~players'[p].alive
              /\ Cardinality(AlivePlayers(players'))
                     <= Cardinality(AlivePlayers(players))]_vars

\* Living players of a faction, counted from the roster.
Living(faction) ==
    Cardinality({p \in Roster(players) :
                    players[p].alive /\ players[p].role.faction = faction})

\* C8: with m living Mafia and t living Town players the win evaluation
\* names Town when m = 0, Mafia when m > 0 and m >= t, and nobody when
\* 0 < m < t; living Neutral players have no part in it and never win.
C8_WinRule ==
    [][pc = "check" =>
         /\ Living("Mafia") = 0 => winners' = <<"Town">> /\ pc' = "done"
         /\ (Living("Mafia") > 0 /\ Living("Mafia") >= Living("Town")) =>
                winners' = <<"Mafia">> /\ pc' = "done"
         /\ (0 < Living("Mafia") /\ Living("Mafia") < Living("Town")) =>
                winners' = << >> /\ pc' = "day"]_vars

\* Three living Mafia against three living Town, with a living Neutral
\* player looking on: Mafia has won.
C8_Witness ==
    /\ pc = "done"
    /\ winners = <<"Mafia">>
    /\ Living("Mafia") = 3 /\ Living("Town") = 3 /\ Living("Neutral") > 0

\* Players of a faction, living or dead.
Members(faction) ==
    Cardinality({p \in Roster(players) : players[p].role.faction = faction})

\* C9: after role assignment a roster of n >= 7 players holds 3 Mafia,
\* 1 Neutral and n - 4 Town players when n <= 12 and 4 Mafia, 2 Neutral and
\* n - 6 Town players when n > 12, each with one role of the catalog, and no
\* later phase changes a player's role.
C9_FactionCounts ==
    /\ [](players # << >> =>
            LET n == Len(players)
            IN  /\ n >= MinPlayers
                /\ \A p \in Roster(players) :
                       \E k \in 1..Len(TOWN_ROLES \o MAFIA_ROLES \o NEUTRAL_ROLES) :
                          players[p].role = (TOWN_ROLES \o MAFIA_ROLES \o NEUTRAL_ROLES)[k]
                /\ n <= 12 => /\ Members("Mafia") = 3
                              /\ Members("Neutral") = 1
                              /\ Members("Town") = n - 4
                /\ n > 12 => /\ Members("Mafia") = 4
                             /\ Members("Neutral") = 2
                             /\ Members("Town") = n - 6)
    /\ [][players # << >> =>
            /\ Len(players') = Len(players)
            /\ \A p \in Roster(players) : players'[p].role = players[p].role]_vars

\* Thirteen players have been dealt 4 Mafia, 2 Neutral and 7 Town roles.
C9_Witness ==
    /\ Len(players) = 13
    /\ Members("Mafia") = 4 /\ Members("Neutral") = 2 /\ Members("Town") = 7

\* The Sheriff notes, held by living Town players, that report the player
\* p as suspicious.
SuspiciousNotesOn(p) ==
    Cardinality({hk \in Roster(players) \X (1..MaxDay) :
        /\ players[hk[1]].alive
        /\ players[hk[1]].role.faction = "Town"
        /\ hk[2] <= Len(players[hk[1]].notes)
        /\ players[hk[1]].notes[hk[2]]
              = SheriffNote(players[p].name, "suspicious")})

\* The living players who appear in that tally.
Tallied == {p \in AlivePlayers(players) : SuspiciousNotesOn(p) > 0}

\* The first player in roster order with the highest tally.
TopOfTally ==
    MinOf({p \in Tallied :
             \A q \in Tallied : SuspiciousNotesOn(q) <= SuspiciousNotesOn(p)})

\* C10: a day eliminates nobody when fewer than 3 players are alive or no
\* living player appears in the tally of "suspicious" Sheriff notes held by
\* living Town players; otherwise it eliminates exactly the living player
\* with the highest tally, the first in roster order on a tie.
C10_DayByTally ==
    [][pc = "day" =>
         Died = IF Cardinality(AlivePlayers(players)) < 3 \/ Tallied = {}
                THEN {}
                ELSE {TopOfTally}]_vars

\* A night has resolved while a player killed in an earlier phase is dead.
C7_Witness ==
    /\ NightResolved
    /\ \E p \in Roster(players) : ~players[p].alive /\ ~InList(p, deaths)

\* A step of _run_night, whether or not its validation raises.
NightRun == pc = "night" /\ pc' # "night"

\* The last entry of a log.
Last(log) == log[Len(log)]

\* C11: for every sheriff-<name> action with a target, the note appended
\* to the Sheriff's log names the target and says "suspicious" exactly when
\* the target's alignment is Mafia or Neutral and "innocent" exactly when
\* it is Town.
C11_SheriffVerdict ==
    [][NightRun =>
         \A k \in DOMAIN actions' :
            (k[1] = "sheriff" /\ actions'[k][2] # NoPlayer) =>
               LET s == actions'[k][1]
                   t == actions'[k][2]
                   verdict == IF players[t].role.alignment \in {"Mafia", "Neutral"}
                              THEN "suspicious" ELSE "innocent"
               IN  /\ Len(players'[s].notes) = Len(players[s].notes) + 1
                   /\ Last(players'[s].notes)
                         = <<"Sheriff result on ">> \o players[t].name
                              \o <<":", " ", verdict, ".">>
                   /\ players[t].role.alignment = "Mafia" =>
                          Contains(Last(players'[s].notes), "suspicious")
                   /\ players[t].role.alignment = "Town" =>
                          /\ Contains(Last(players'[s].notes), "innocent")
                          /\ ~Contains(Last(players'[s].notes), "suspicious")]_vars

\* The Sheriff has investigated a Neutral player and noted "suspicious".
C11_Witness ==
    /\ NightResolved
    /\ \E k \in DOMAIN actions :
          /\ k[1] = "sheriff"
          /\ actions[k][2] # NoPlayer
          /\ players[actions[k][2]].role.alignment = "Neutral"
          /\ players[actions[k][1]].notes # << >>
          /\ Contains(Last(players[actions[k][1]].notes), "suspicious")

\* The players marked cleaned.
Cleaned(ps) == {p \in Roster(ps) : ps[p].cleaned}

\* C12: the execution counter stays in {0, 1} and the cleaning counter in
\* {0, 1, 2}; each falls by at most 1, in a night only, and never rises; with
\* the execution counter at 0 the jailed player does not die, with the
\* cleaning counter at 0 nobody is marked cleaned; an execution takes the
\* only charge and at most two players are ever marked cleaned.
C12_LimitedUses ==
    /\ [](/\ jailor_executions \in {0, 1}
          /\ janitor_cleans \in {0, 1, 2}
          /\ Cardinality(Cleaned(players)) <= 2 - janitor_cleans)
    /\ [][/\ jailor_executions' \in {jailor_executions, jailor_executions - 1}
          /\ janitor_cleans' \in {janitor_cleans, janitor_cleans - 1}
          /\ ~NightRun => (/\ jailor_executions' = jailor_executions
                           /\ janitor_cleans' = janitor_cleans)
          /\ NightRun =>
               /\ jailor_executions = 0 => Jailed(actions') \notin Died
               /\ Jailed(actions') \in Died =>
                      jailor_executions = 1 /\ jailor_executions' = 0
               /\ janitor_cleans = 0 => Cleaned(players') = Cleaned(players)
               /\ Cleaned(players') # Cleaned(players) =>
                      janitor_cleans' = janitor_cleans - 1]_vars

\* Both counters are used up, and a night has gone by in which the Mafia
\* killed, nobody was cleaned, and a jailed player who is not Town lived.
C12_Witness ==
    /\ NightResolved
    /\ jailor_executions = 0 /\ janitor_cleans = 0
    /\ ~HasAction(actions, Key("janitor_clean"))
    /\ deaths = <<KillTarget>>
    /\ ~players[KillTarget].cleaned
    /\ Jailed(actions) # NoPlayer
    /\ players[Jailed(actions)].role.faction # "Town"
    /\ players[Jailed(actions)].alive

IsPrefix(a, b) == Len(a) <= Len(b) /\ SubSeq(b, 1, Len(a)) = a

\* C13: in every phase each player's log before the phase is a prefix of
\* the log after it; the day and the win evaluation leave every log as it
\* is; a night adds to a player's log, one entry, only when that player is
\* the actor of a sheriff-, investigator- or consigliere- action with a
\* target that night.
C13_LogsAppendOnly ==
    [][players # << >> =>
         \A p \in Roster(players) :
            /\ IsPrefix(players[p].notes, players'[p].notes)
            /\ ~NightRun => players'[p].notes = players[p].notes
            /\ players'[p].notes # players[p].notes =>
                  /\ Len(players'[p].notes) = Len(players[p].notes) + 1
                  /\ \E k \in DOMAIN actions' :
                        /\ k[1] \in {"sheriff", "investigator", "consigliere"}
                        /\ actions'[k][1] = p
                        /\ actions'[k][2] # NoPlayer]_vars

\* A second night has added a second entry to the Sheriff's log.
C13_Witness ==
    /\ NightResolved
    /\ \E k \in DOMAIN actions :
          /\ k[1] = "sheriff"
          /\ Len(players[actions[k][1]].notes) = 2

\* The target of the night's action of one kind, whoever holds the role.
TargetOfKind(acts, kind) ==
    IF \E k \in DOMAIN acts : k[1] = kind
    THEN acts[CHOOSE k \in DOMAIN acts : k[1] = kind][2]
    ELSE NoPlayer

\* The actor of the night's action of one kind, 0 when there is none.
ActorOfKind(acts, kind) ==
    IF \E k \in DOMAIN acts : k[1] = kind
    THEN acts[CHOOSE k \in DOMAIN acts : k[1] = kind][1]
    ELSE NoPlayer

\* C14 (notes): a jailed Sheriff, Investigator or Consigliere gets no note.
JailedGetsNoNote ==
    NightRun =>
       \A p \in Roster(players) :
          p = Jailed(actions') => players'[p].notes = players[p].notes

\* C14 (heal): the heal of a jailed Doctor protects nobody; the Mafia's
\* target, when nothing but that heal stands in the way, dies.
JailedDoctorHealsNobody ==
    NightRun =>
       LET doctor == ActorOfKind(actions', "heal")
           target == TargetOfKind(actions', "mafia_kill")
       IN  (/\ doctor # NoPlayer /\ doctor = Jailed(actions')
            /\ target # NoPlayer
            /\ target = TargetOfKind(actions', "heal")
            /\ target # Jailed(actions')
            /\ target # TargetOfKind(actions', "roleblock"))
           => target \in Died

\* C14 (roleblock): the roleblock of a jailed Escort has no effect; the
\* Mafia's target, when nothing but that roleblock stands in the way, dies.
JailedEscortBlocksNobody ==
    NightRun =>
       LET escort == ActorOfKind(actions', "roleblock")
           target == TargetOfKind(actions', "mafia_kill")
       IN  (/\ escort # NoPlayer /\ escort = Jailed(actions')
            /\ target # NoPlayer
            /\ target = TargetOfKind(actions', "roleblock")
            /\ target # Jailed(actions')
            /\ target # TargetOfKind(actions', "heal"))
           => target \in Died

\* C14: in every night the jailed player's own ability does not fire: a
\* jailed Sheriff, Investigator or Consigliere gets no note, a jailed
\* Doctor's heal protects nobody and a jailed Escort's roleblock has no
\* effect.
C14_JailedAbilityInert ==
    [][JailedGetsNoNote /\ JailedDoctorHealsNobody
          /\ JailedEscortBlocksNobody]_vars

\* C15: in every night in which the actor recorded for mafia_kill and
\* janitor_clean is in the roleblocked set (the Escort's target or the
\* jailed player), the Mafia kill causes no death and nobody is marked
\* cleaned.
C15_BlockedKillerInert ==
    [][(/\ NightRun
        /\ ActorOfKind(actions', "mafia_kill") # NoPlayer
        /\ ActorOfKind(actions', "mafia_kill")
              \in {TargetOfKind(actions', "roleblock"), Jailed(actions')})
       => /\ Died \subseteq {Jailed(actions')}
          /\ Cleaned(players') = Cleaned(players)]_vars

\* C16: night validation raises an error whenever a recorded action has a
\* Mafia actor and a Mafia target, whatever its key, and whenever the name of
\* an actor or a target is not the name of a roster member.
C16_ValidationRaises ==
    [][NightRun =>
         ((\E k \in DOMAIN actions' :
              \/ /\ actions'[k][2] # NoPlayer
                 /\ players[actions'[k][1]].role.faction = "Mafia"
                 /\ players[actions'[k][2]].role.faction = "Mafia"
              \/ actions'[k][1] \notin Roster(players)
              \/ actions'[k][2] \notin Roster(players) \cup {NoPlayer})
          => pc' = "error")]_vars

\* C17: in every night of run at most one mafia_kill is recorded, exactly
\* when a living Mafia player and a living player who is not Mafia exist;
\* its target is a living player who is not Mafia; every recorded actor and
\* target is a roster member; night validation never raises.
C17_KillWellFormed ==
    /\ [](pc # "error")
    /\ [][NightRun =>
           /\ Cardinality({k \in DOMAIN actions' : k[1] = "mafia_kill"}) <= 1
           /\ (\E k \in DOMAIN actions' : k[1] = "mafia_kill")
                 <=> (\E m, v \in Roster(players) :
                        /\ players[m].alive /\ players[m].role.faction = "Mafia"
                        /\ players[v].alive /\ players[v].role.faction # "Mafia")
           /\ \A k \in DOMAIN actions' :
                 /\ actions'[k][1] \in Roster(players)
                 /\ actions'[k][2] \in Roster(players) \cup {NoPlayer}
                 /\ k[1] = "mafia_kill" =>
                       /\ actions'[k][2] \in Roster(players)
                       /\ players[actions'[k][2]].alive
                       /\ players[actions'[k][2]].role.faction # "Mafia"
                       /\ players[actions'[k][1]].role.faction = "Mafia"
           /\ pc' = "check"]_vars

\* A second night has recorded its Mafia kill and passed validation.
C17_Witness ==
    /\ NightResolved
    /\ day = 3
    /\ KillTarget # NoPlayer
    /\ players[KillTarget].role.faction # "Mafia"

\* C18: a night sets a player's cleaned flag only if that player is the
\* janitor_clean target and is in that night's death list; no other step
\* sets it and no step resets it; every cleaned player is dead.
C18_CleanedAreDead ==
    /\ [](\A p \in Roster(players) : players[p].cleaned => ~players[p].alive)
    /\ [][players # << >> =>
           \A p \in Roster(players) :
              /\ players[p].cleaned => players'[p].cleaned
              /\ (~players[p].cleaned /\ players'[p].cleaned) =>
                    /\ NightRun
                    /\ p = TargetOfKind(actions', "janitor_clean")
                    /\ p \in ListSet(deaths')]_vars

\* The night's kill victim has been marked cleaned.
C18_Witness ==
    /\ NightResolved
    /\ HasAction(actions, Key("janitor_clean"))
    /\ KillTarget # NoPlayer
    /\ InList(KillTarget, deaths)
    /\ players[KillTarget].cleaned

\* C19: the day counter starts at 1, every night adds exactly 1 to it
\* whatever the night's outcome, and the day phase and the win evaluation
\* leave it as it is.
C19_DayCounts ==
    /\ [](pc = "new" => day = 1)
    /\ [][/\ NightRun => day' = day + 1
          /\ ~NightRun => day' = day]_vars

\* Two nights have run, the second without a death, and the day is 3.
C19_Witness ==
    /\ NightResolved
    /\ day = 3
    /\ deaths = << >>

\* The names are pairwise different and hold neither "suspicious" nor ":".
BenignNames ==
    \A p, q \in Roster(players) :
       /\ p # q => players[p].name # players[q].name
       /\ ~Contains(players[p].name, "suspicious")
       /\ ~Contains(players[p].name, ":")

\* C20: the games played have such names (names do not change after
\* add_players); the suspicion tally, whenever a night or a day is about to
\* read it, names only players whose alignment is Mafia or Neutral; and a
\* Town player's alive flag is cleared only by the Mafia kill of a night:
\* never by the day trial, never by the Jailor's execution.
C20_TownDiesOnlyByKill ==
    /\ []((pc = "night" /\ day = 1) => BenignNames)
    /\ [](pc \in {"night", "day"} =>
            \A h \in AlivePlayersByFaction(players, "Town") :
               \A i \in 1..Len(players[h].notes) :
                  \A p \in Roster(players) :
                     players[p].name = ExtractSuspectName(players[h].notes[i]) =>
                        players[p].role.alignment \in {"Mafia", "Neutral"})
    /\ [][players # << >> =>
            \A p \in Roster(players) :
               (/\ players[p].role.faction = "Town"
                /\ players[p].alive /\ ~players'[p].alive) =>
                  /\ NightRun
                  /\ p = TargetOfKind(actions', "mafia_kill")
                  /\ p # Jailed(actions')]_vars

\* A day's trial has eliminated a Mafia player: no execution has been made
\* and a Mafia player named in a "suspicious" note is dead.
C20_Witness ==
    /\ phase = "day"
    /\ jailor_executions = 1
    /\ \E p \in Roster(players) :
          /\ players[p].role.faction = "Mafia"
          /\ ~players[p].alive
          /\ SuspiciousNotesOn(p) > 0

\* C21: whenever run is about to execute a day phase no winner is stored,
\* at least one Mafia player lives and strictly more Town than Mafia players
\* live, hence at least 3 players live; and the day phase that then runs
\* never finds fewer than 3 living players in _trial_and_lynch.
C21_DayHasThreeAlive ==
    /\ [](pc = "day" =>
            /\ winners = << >>
            /\ Living("Mafia") >= 1
            /\ Living("Town") > Living("Mafia")
            /\ Cardinality(AlivePlayers(players)) >= 3)
    /\ [][(pc = "day" /\ phase' = "day" /\ pc' # "day") =>
            Cardinality(AlivePlayers(players)) >= 3]_vars

\* A later day is about to run with exactly 3 living players: 2 Town and
\* 1 Mafia, the fewest the win evaluation lets through.
C21_Witness ==
    /\ pc = "day"
    /\ day > 2
    /\ Cardinality(AlivePlayers(players)) = 3
    /\ Living("Town") = 2
    /\ Living("Mafia") = 1
====
